---- MODULE Spec2Model ----
(***************************************************************************)
(* A model of the Song aggregate of tuneflow (src/src/models/song.ts) and  *)
(* of the plugin base class (src/src/base_plugin.ts).                      *)
(*                                                                         *)
(* Array indexes are kept 0-based as in the TypeScript source; a sequence  *)
(* s of the model holds the array element a[i] at s[i + 1].                *)
(* JavaScript numbers that hold times are modelled as exact rationals      *)
(* <<numerator, denominator>> in lowest terms.                             *)
(***************************************************************************)
EXTENDS Integers, Sequences, FiniteSets, TLC

\* ------------------------------------------------------------------ bounds
MaxTick == 2
MaxTempos == 3
MaxInput == 2
MaxTracks == 2
MaxIds == 2
MaxRank == 2
MaxSignatures == 3
MaxImports == 1

\* Input values the operations are exercised with.
BPMs == {60, 120}
Resolutions == {96, 480}
Ticks == 0..MaxTick
QueryTicks == 0..(MaxTick + 2)

\* Plugin instances, named after the access each declares with songAccess().
Plugins == {"creator", "remover", "editor"}
TrackTypes == {"MIDI_TRACK"}
Undefined == -1

VARIABLES PPQ, tempos, resolutionChangedLate, last,
          tracks, nextTrackRank, pluginContext, generatedTrackIdsInternal,
          mintedTrackIds, lastTrackCall, trackHistory, otherSong,
          pluginClass, enabledInternal, paramsResultInternal, lastPluginCall,
          timeSignatures, lastSignatureCall, lastImport

timelineVars == <<PPQ, tempos, resolutionChangedLate, last>>
trackVars == <<tracks, nextTrackRank, pluginContext, generatedTrackIdsInternal,
               mintedTrackIds, lastTrackCall, trackHistory, otherSong>>
pluginVars == <<pluginClass, enabledInternal, paramsResultInternal, lastPluginCall>>
signatureVars == <<timeSignatures, lastSignatureCall>>
vars == <<timelineVars, trackVars, pluginVars, signatureVars, lastImport>>

\* ------------------------------------------------- numbers (exact rationals)
Abs(x) == IF x < 0 THEN -x ELSE x

Sign(x) == IF x > 0 THEN 1 ELSE IF x < 0 THEN -1 ELSE 0

RECURSIVE GCD(_, _)
GCD(a, b) == IF b = 0 THEN a ELSE GCD(b, a % b)

\* n / d in lowest terms with a positive denominator; x / 0 is Infinity
\* (<<1, 0>>), -Infinity (<<-1, 0>>) or NaN (<<0, 0>>) as in JavaScript.
Num(n, d) ==
    IF d = 0 THEN <<Sign(n), 0>>
    ELSE LET g == GCD(Abs(n), Abs(d))
         IN  <<Sign(d) * (n \div g), Abs(d) \div g>>

Zero == <<0, 1>>
FromInt(n) == <<n, 1>>
RAdd(x, y) == Num(x[1] * y[2] + y[1] * x[2], x[2] * y[2])
RSub(x, y) == Num(x[1] * y[2] - y[1] * x[2], x[2] * y[2])
RMul(x, y) == Num(x[1] * y[1], x[2] * y[2])
RDiv(x, y) == Num(x[1] * y[2], x[2] * y[1])
RSign(x) == Sign(x[1])

\* Math.round: the nearest integer, halves rounded towards +Infinity.
MathRound(x) == (2 * x[1] + x[2]) \div (2 * x[2])

\* ----------------------------------------- binary-search-bounds (ge and lt)
\* c is the sequence of comparator results cmp(a[i], y) over the array.
RECURSIVE geLoop(_, _, _, _)
geLoop(c, l, h, i) ==
    IF l > h THEN i
    ELSE LET m == (l + h) \div 2
         IN  IF c[m + 1] >= 0 THEN geLoop(c, l, m - 1, m)
             ELSE geLoop(c, m + 1, h, i)

RECURSIVE ltLoop(_, _, _, _)
ltLoop(c, l, h, i) ==
    IF l > h THEN i
    ELSE LET m == (l + h) \div 2
         IN  IF c[m + 1] < 0 THEN ltLoop(c, m + 1, h, m)
             ELSE ltLoop(c, l, m - 1, i)

\* Index of the first item >= y; the array length when there is none.
greaterEqual(c) == geLoop(c, 0, Len(c) - 1, Len(c))

\* Index of the last item < y; -1 when there is none.
lowerThan(c) == ltLoop(c, 0, Len(c) - 1, -1)

\* (a, b) => a.getTicks() - b.getTicks(), b being the probe with tick `tick`.
TickCmp(tps, tick) == [i \in 1..Len(tps) |-> tps[i].ticks - tick]

\* Mutant: the comparator's arguments swapped.
TimeCmp_Swapped(tps, seconds) ==
    [i \in 1..Len(tps) |-> RSign(RSub(seconds, tps[i].time))]

\* (a, b) => a.getTime() - b.getTime(), b being the probe with time `seconds`.
TimeCmp(tps, seconds) == [i \in 1..Len(tps) |-> RSign(RSub(tps[i].time, seconds))]

\* ------------------------------------------------------------ array helpers
\* Array.prototype.splice(index, 0, item)
SpliceIn(s, index, item) ==
    LET at == IF index > Len(s) THEN Len(s) ELSE index
    IN  SubSeq(s, 1, at) \o <<item>> \o SubSeq(s, at + 1, Len(s))

\* Mutant: the sort comparator reversed (b.getTicks() - a.getTicks()).
InsertByTicks_Descending(s, e) ==
    LET k == Cardinality({i \in 1..Len(s) : s[i].ticks >= e.ticks})
    IN  SubSeq(s, 1, k) \o <<e>> \o SubSeq(s, k + 1, Len(s))

\* Array.prototype.sort((a, b) => a.getTicks() - b.getTicks()): a stable sort.
InsertByTicks(s, e) ==
    LET k == Cardinality({i \in 1..Len(s) : s[i].ticks <= e.ticks})
    IN  SubSeq(s, 1, k) \o <<e>> \o SubSeq(s, k + 1, Len(s))

RECURSIVE SortByTicks(_)
SortByTicks(s) ==
    IF s = <<>> THEN <<>>
    ELSE InsertByTicks(SortByTicks(SubSeq(s, 1, Len(s) - 1)), s[Len(s)])

\* ---------------------------------------------------------- tick <-> seconds
\* Mutant: beats per minute taken for beats per second.
tempoBPMToTicksPerSecond_PerMinute(tempoBPM, ppq) == FromInt(tempoBPM * ppq)

tempoBPMToTicksPerSecond(tempoBPM, ppq) == RDiv(FromInt(tempoBPM * ppq), FromInt(60))

tickToSecondsImpl(tick, tps, resolution) ==
    IF tick = 0 THEN Zero
    ELSE LET found == lowerThan(TickCmp(tps, tick))
             baseTempoIndex == IF found = -1 THEN 0 ELSE found
             baseTempoChange == tps[baseTempoIndex + 1]
             ticksDelta == tick - baseTempoChange.ticks
             ticksPerSecondSinceLastTempoChange ==
                 tempoBPMToTicksPerSecond(baseTempoChange.bpm, resolution)
         IN  RAdd(baseTempoChange.time,
                  RDiv(FromInt(ticksDelta), ticksPerSecondSinceLastTempoChange))

secondsToTickImpl(seconds, tps, resolution) ==
    IF seconds = Zero THEN 0
    ELSE LET found == lowerThan(TimeCmp(tps, seconds))
             baseTempoIndex == IF found = -1 THEN 0 ELSE found
             baseTempoChange == tps[baseTempoIndex + 1]
             timeDelta == RSub(seconds, baseTempoChange.time)
             ticksPerSecondSinceLastTempoChange ==
                 tempoBPMToTicksPerSecond(baseTempoChange.bpm, resolution)
         IN  MathRound(RAdd(FromInt(baseTempoChange.ticks),
                            RMul(timeDelta, ticksPerSecondSinceLastTempoChange)))

tickToSeconds(tick) == tickToSecondsImpl(tick, tempos, PPQ)

secondsToTick(seconds) == secondsToTickImpl(seconds, tempos, PPQ)

\* ------------------------------------------------------------- tempo events
\* The loop of retimingTempoEvents: event i is re-timed against the array in
\* which the events before it already carry their new times.
RECURSIVE retimeLoop(_, _, _)
retimeLoop(tps, i, resolution) ==
    IF i > Len(tps) THEN tps
    ELSE retimeLoop(
             [tps EXCEPT ![i].time = tickToSecondsImpl(tps[i].ticks, tps, resolution)],
             i + 1, resolution)

\* Mutant: an event is timed from itself, with its own tempo over the ticks
\* since the event before it.
RECURSIVE retimeLoop_OwnTempo(_, _, _)
retimeLoop_OwnTempo(tps, i, resolution) ==
    IF i > Len(tps) THEN tps
    ELSE LET found == lowerThan(TickCmp(tps, tps[i].ticks))
             base == tps[(IF found = -1 THEN 0 ELSE found) + 1]
             time == IF tps[i].ticks = 0 THEN Zero
                     ELSE RAdd(base.time,
                               RDiv(FromInt(tps[i].ticks - base.ticks),
                                    tempoBPMToTicksPerSecond(tps[i].bpm, resolution)))
         IN  retimeLoop_OwnTempo([tps EXCEPT ![i].time = time], i + 1, resolution)

retimingTempoEvents_OwnTempo(tps, resolution) ==
    retimeLoop_OwnTempo(SortByTicks(tps), 1, resolution)

\* Mutant: the events are sorted but their times are not derived again.
retimingTempoEvents_SortOnly(tps, resolution) == SortByTicks(tps)

retimingTempoEvents(tps, resolution) == retimeLoop(SortByTicks(tps), 1, resolution)

Tagged(tps, flag) ==
    [i \in 1..Len(tps) |->
        [ticks |-> tps[i].ticks, bpm |-> tps[i].bpm, time |-> tps[i].time, fresh |-> flag]]

Untagged(tps) ==
    [i \in 1..Len(tps) |->
        [ticks |-> tps[i].ticks, bpm |-> tps[i].bpm, time |-> tps[i].time]]

\* Mutant: a resolution of 0 passes for a set one.
resolutionUnset_Negative(ppq) == ppq < 0

\* this.PPQ <= 0: the resolution has not been set.
resolutionUnset(ppq) == ppq <= 0

\* this.tempos.length === 0 && ticks !== 0
firstNotAtZero(tps, ticks) == Len(tps) = 0 /\ ticks # 0

\* createTempoChange as a function of the song's tempo array and resolution:
\* whether it returned (ok), the tempo array it leaves, and the index (ret) at
\* which the returned event sits in that array. The new event object is
\* tagged while the array is sorted and re-timed so that its place is known.
createTempoChangeImpl(tps, ppq, ticks, bpm) ==
    IF resolutionUnset(ppq) THEN [ok |-> FALSE, tempos |-> tps, ret |-> -1]
    ELSE IF firstNotAtZero(tps, ticks) THEN [ok |-> FALSE, tempos |-> tps, ret |-> -1]
    ELSE LET tempoChange == [ticks |-> ticks, bpm |-> bpm,
                             time |-> tickToSecondsImpl(ticks, tps, ppq),
                             fresh |-> TRUE]
             insertIndex == greaterEqual(TickCmp(tps, ticks))
             inserted == IF insertIndex < 0
                            THEN Append(Tagged(tps, FALSE), tempoChange)
                            ELSE SpliceIn(Tagged(tps, FALSE), insertIndex, tempoChange)
             retimed == retimingTempoEvents(inserted, ppq)
         IN  [ok |-> TRUE, tempos |-> Untagged(retimed),
              ret |-> (CHOOSE i \in 1..Len(retimed) : retimed[i].fresh) - 1]

RECURSIVE overwriteLoop(_, _, _, _)
overwriteLoop(tps, ppq, sortedTempoEvents, i) ==
    IF i >= Len(sortedTempoEvents) THEN [ok |-> TRUE, tempos |-> tps]
    ELSE LET tempoEvent == sortedTempoEvents[i + 1]
             r == createTempoChangeImpl(tps, ppq, tempoEvent.ticks, tempoEvent.bpm)
         IN  IF r.ok THEN overwriteLoop(r.tempos, ppq, sortedTempoEvents, i + 1)
             ELSE [ok |-> FALSE, tempos |-> r.tempos]

\* Mutant: an input that starts at tick 1 is let through.
startsAfterZero_OffByOne(firstTempoEvent) == firstTempoEvent.ticks > 1

\* Mutant: the canonical first event is put in front of the old events.
resetTempos_KeepOld(tps, firstTempoEvent) ==
    <<[ticks |-> 0, time |-> Zero, bpm |-> firstTempoEvent.bpm]>> \o tps

\* Mutant: the first input event is stored with the time it came with.
resetTempos_InputTime(tps, firstTempoEvent) ==
    <<[ticks |-> firstTempoEvent.ticks, time |-> firstTempoEvent.time,
       bpm |-> firstTempoEvent.bpm]>>

\* firstTempoEvent.getTicks() > 0
startsAfterZero(firstTempoEvent) == firstTempoEvent.ticks > 0

\* this.tempos = [new TempoEvent({ ticks: 0, time: 0, bpm: firstTempoEvent.getBpm() })]
resetTempos(tps, firstTempoEvent) ==
    <<[ticks |-> 0, time |-> Zero, bpm |-> firstTempoEvent.bpm]>>

\* overwriteTempoChanges: whether it returned (ok) and the tempo array it
\* leaves; a createTempoChange that throws ends it where it stands.
overwriteTempoChangesImpl(tps, ppq, tempoEvents) ==
    IF Len(tempoEvents) = 0 THEN [ok |-> FALSE, tempos |-> tps]
    ELSE LET sortedTempoEvents == SortByTicks(tempoEvents)
             firstTempoEvent == sortedTempoEvents[1]
         IN  IF startsAfterZero(firstTempoEvent) THEN [ok |-> FALSE, tempos |-> tps]
             ELSE overwriteLoop(resetTempos(tps, firstTempoEvent),
                                ppq, sortedTempoEvents, 1)

\* ------------------------------------------------------------------ inputs
InputTimes == {<<7, 2>>}

InputEvents == [ticks : Ticks, bpm : BPMs, time : InputTimes]

RECURSIVE SeqsUpTo(_, _)
SeqsUpTo(S, n) ==
    IF n = 0 THEN {<<>>}
    ELSE LET shorter == SeqsUpTo(S, n - 1)
         IN  shorter \cup {Append(s, e) : s \in {t \in shorter : Len(t) = n - 1}, e \in S}

TempoInputs == SeqsUpTo(InputEvents, MaxInput)

TicksOf(tempoEvents) == [i \in 1..Len(tempoEvents) |-> tempoEvents[i].ticks]

\* Whether the ticks of an input are pairwise different.
PairwiseDistinct(ticks) ==
    \A i, j \in 1..Len(ticks) : ticks[i] = ticks[j] => i = j

\* Whether the earliest tick of an input is 0 (false for the empty input).
EarliestIsZero(ticks) ==
    /\ \E i \in 1..Len(ticks) : ticks[i] = 0
    /\ \A i \in 1..Len(ticks) : ticks[i] >= 0

\* What the last call was: its name, whether it returned (ok) or threw, the
\* tick it was given (createTempoChange), the index (ret) at which the event
\* it returned sits in the tempo array, and for overwriteTempoChanges whether
\* its input was empty, started at tick 0 and held a tick more than once.
Call(op, ok, ticks, ret, input) ==
    [op |-> op, ok |-> ok, ticks |-> ticks, ret |-> ret,
     empty |-> (input = <<>>),
     fromZero |-> EarliestIsZero(TicksOf(input)),
     repeated |-> ~PairwiseDistinct(TicksOf(input))]

\* ---------------------------------------------------------- time signatures
Numerators == {3, 4}
Denominators == {4}

SignatureEvents == [ticks : Ticks, numerator : Numerators, denominator : Denominators]

SignatureInputs == SeqsUpTo(SignatureEvents, MaxInput)

\* Mutant: the new event is pushed at the end whatever its tick.
createTimeSignatureImpl_Push(sigs, ticks, numerator, denominator) ==
    [timeSignatures |->
         Append(sigs, [ticks |-> ticks, numerator |-> numerator, denominator |-> denominator]),
     ret |-> Len(sigs)]

\* createTimeSignature: the array it leaves and the index (ret) of the event
\* it returns.
createTimeSignatureImpl(sigs, ticks, numerator, denominator) ==
    LET timeSignature == [ticks |-> ticks, numerator |-> numerator,
                          denominator |-> denominator]
        insertIndex == greaterEqual(TickCmp(sigs, ticks))
    IN  IF insertIndex < 0
        THEN [timeSignatures |-> Append(sigs, timeSignature), ret |-> Len(sigs)]
        ELSE [timeSignatures |-> SpliceIn(sigs, insertIndex, timeSignature),
              ret |-> IF insertIndex > Len(sigs) THEN Len(sigs) ELSE insertIndex]

\* this.timeSignatures = cloneDeep(timeSignatures)
overwriteTimeSignaturesImpl(sigs, newTimeSignatures) == newTimeSignatures

\* Whether the ticks of an input never decrease.
Ascending(ticks) == \A i \in 1..(Len(ticks) - 1) : ticks[i] <= ticks[i + 1]

\* What the last time-signature call was: its name, the tick it was given and
\* the index of the event it returned (createTimeSignature), and whether the
\* input of overwriteTimeSignatures was in tick order and held a tick twice.
SignatureCall(op, ticks, ret, input) ==
    [op |-> op, ticks |-> ticks, ret |-> ret,
     ascending |-> Ascending(TicksOf(input)),
     repeated |-> ~PairwiseDistinct(TicksOf(input))]

\* ------------------------------------------------- plugin context and tracks
songAccess(plugin) ==
    [createTrack |-> plugin \in {"creator", "editor"},
     removeTrack |-> plugin \in {"remover", "editor"}]

NoContext == [attached |-> FALSE, plugin |-> "-", numTracksCreatedByPlugin |-> 0]

\* The part of the state createTrack and removeTrack read and write, as one
\* record, so that cloneTrack and importMIDI can go through createTrack.
SongTracks ==
    [tracks |-> tracks, nextTrackRank |-> nextTrackRank, pluginContext |-> pluginContext,
     pool |-> generatedTrackIdsInternal, minted |-> mintedTrackIds]

\* Mutant: only the presence of a context is checked, not the access.
checkAccessThrows_ContextOnly(ctx, accessName) == ~ctx.attached

\* Whether checkAccess(accessName) throws.
checkAccessThrows(ctx, accessName) ==
    \/ ~ctx.attached
    \/ ~songAccess(ctx.plugin)[accessName]

\* Track.generateTrackIdInternal(): an identifier never handed out before;
\* `minted` counts the identifiers made so far.
generateTrackIdInternal(minted) == minted + 1

\* Mutant: the counter of the context is advanced by two.
getNextTrackId_CountTwice(ctx, pool, minted) ==
    LET pluginGeneratedTrackIds == pool[ctx.plugin]
        n == ctx.numTracksCreatedByPlugin
    IN  IF n > Len(pluginGeneratedTrackIds)
        THEN [ok |-> FALSE, id |-> Undefined, pool |-> pool, minted |-> minted,
              pluginContext |-> ctx]
        ELSE LET mint == (n = Len(pluginGeneratedTrackIds))
                 ids == IF mint
                           THEN Append(pluginGeneratedTrackIds, generateTrackIdInternal(minted))
                           ELSE pluginGeneratedTrackIds
             IN  [ok |-> TRUE, id |-> ids[n + 1],
                  pool |-> [pool EXCEPT ![ctx.plugin] = ids],
                  minted |-> IF mint THEN minted + 1 ELSE minted,
                  pluginContext |-> [ctx EXCEPT !.numTracksCreatedByPlugin = n + 2]]

\* Mutant: the id handed out is the last of the pool, not the one at the
\* position of the counter.
getNextTrackId_LastId(ctx, pool, minted) ==
    LET pluginGeneratedTrackIds == pool[ctx.plugin]
        n == ctx.numTracksCreatedByPlugin
        mint == (n = Len(pluginGeneratedTrackIds))
        ids == IF mint
                  THEN Append(pluginGeneratedTrackIds, generateTrackIdInternal(minted))
                  ELSE pluginGeneratedTrackIds
    IN  [ok |-> TRUE, id |-> ids[Len(ids)],
         pool |-> [pool EXCEPT ![ctx.plugin] = ids],
         minted |-> IF mint THEN minted + 1 ELSE minted,
         pluginContext |-> [ctx EXCEPT !.numTracksCreatedByPlugin = n + 1]]

\* getNextTrackId: [ok, id, pool, minted, pluginContext]
getNextTrackId(ctx, pool, minted) ==
    LET pluginGeneratedTrackIds == pool[ctx.plugin]
        n == ctx.numTracksCreatedByPlugin
    IN  IF n > Len(pluginGeneratedTrackIds)
        THEN [ok |-> FALSE, id |-> Undefined, pool |-> pool, minted |-> minted,
              pluginContext |-> ctx]
        ELSE LET mint == (n = Len(pluginGeneratedTrackIds))
                 ids == IF mint
                           THEN Append(pluginGeneratedTrackIds, generateTrackIdInternal(minted))
                           ELSE pluginGeneratedTrackIds
             IN  [ok |-> TRUE, id |-> ids[n + 1],
                  pool |-> [pool EXCEPT ![ctx.plugin] = ids],
                  minted |-> IF mint THEN minted + 1 ELSE minted,
                  pluginContext |-> [ctx EXCEPT !.numTracksCreatedByPlugin = n + 1]]

Max(a, b) == IF a > b THEN a ELSE b

\* createTrack on the state s: [ok, s, ret], ret being the index at which the
\* returned track sits in s.tracks.
createTrackImpl(s, type, index, rank) ==
    IF checkAccessThrows(s.pluginContext, "createTrack")
    THEN [ok |-> FALSE, s |-> s, ret |-> Undefined]
    ELSE LET auto == (rank = Undefined)
             trackRank == IF auto THEN s.nextTrackRank ELSE rank
             rankCounter == IF auto THEN s.nextTrackRank + 1
                            ELSE Max(rank + 1, s.nextTrackRank)
             next == getNextTrackId(s.pluginContext, s.pool, s.minted)
             track == [id |-> next.id, rank |-> trackRank, type |-> type]
             at == IF index = Undefined THEN Len(s.tracks) ELSE index
         IN  IF ~next.ok
             THEN [ok |-> FALSE, s |-> [s EXCEPT !.nextTrackRank = rankCounter],
                   ret |-> Undefined]
             ELSE [ok |-> TRUE,
                   s |-> [tracks |-> SpliceIn(s.tracks, at, track),
                          nextTrackRank |-> rankCounter,
                          pluginContext |-> next.pluginContext,
                          pool |-> next.pool,
                          minted |-> next.minted],
                   ret |-> IF at > Len(s.tracks) THEN Len(s.tracks) ELSE at]

\* _.findIndex(this.tracks, track => track.getId() === trackId)
getTrackIndex(trks, trackId) ==
    IF \E i \in 1..Len(trks) : trks[i].id = trackId
    THEN (CHOOSE i \in 1..Len(trks) :
              /\ trks[i].id = trackId
              /\ \A j \in 1..(i - 1) : trks[j].id # trackId) - 1
    ELSE -1

\* cloneTrack of a track with identifier trackId and type `type` (a track of
\* this song or of another one); the mixer state, instrument, plugins and
\* clips it copies onto the new track are not part of this model.
cloneTrackImpl(s, trackId, type) ==
    LET found == getTrackIndex(s.tracks, trackId)
        trackIndex == IF found < 0 THEN Undefined ELSE found
    IN  createTrackImpl(s, type, trackIndex, Undefined)

\* Mutant: the track before the one found is spliced out.
RemoveAt_OffByOne(trks, i) == SubSeq(trks, 1, i - 1) \o SubSeq(trks, i + 1, Len(trks))

\* this.tracks.splice(i, 1)
RemoveAt(trks, i) == SubSeq(trks, 1, i) \o SubSeq(trks, i + 2, Len(trks))

\* removeTrack: [ok, s, ret], ret being the index the removed track had, or
\* Undefined when null is returned.
removeTrackImpl(s, trackId) ==
    IF checkAccessThrows(s.pluginContext, "removeTrack")
    THEN [ok |-> FALSE, s |-> s, ret |-> Undefined]
    ELSE LET found == getTrackIndex(s.tracks, trackId)
         IN  IF found < 0 THEN [ok |-> TRUE, s |-> s, ret |-> Undefined]
             ELSE [ok |-> TRUE, s |-> [s EXCEPT !.tracks = RemoveAt(s.tracks, found)],
                   ret |-> found]

\* What the last track call was: its name, whether it returned (ok) or threw,
\* the index (ret) of the track it returned and the track id it was given.
TrackCall(op, ok, ret, trackId) == [op |-> op, ok |-> ok, ret |-> ret, trackId |-> trackId]

\* Mutant: the counter of the context that is replaced is carried over.
newPluginContext_KeepCount(plugin) ==
    [attached |-> TRUE, plugin |-> plugin,
     numTracksCreatedByPlugin |-> pluginContext.numTracksCreatedByPlugin]

\* Mutant: a context that is still attached keeps its plugin.
newPluginContext_KeepPlugin(plugin) ==
    [attached |-> TRUE,
     plugin |-> IF pluginContext.attached THEN pluginContext.plugin ELSE plugin,
     numTracksCreatedByPlugin |-> 0]

\* this.pluginContext = { plugin, numTracksCreatedByPlugin: 0 }
newPluginContext(plugin) ==
    [attached |-> TRUE, plugin |-> plugin, numTracksCreatedByPlugin |-> 0]

\* The record of the runs so far, kept beside the song: the ids of the tracks
\* created since the last attach (current), the plugin and the ids of the run
\* before it (previousPlugin, previous), whether the last attach replaced a
\* context that had not been detached (replaced), the plugin of the last
\* attach ("-" once detached) and every rank given to a track so far.
NoHistory ==
    [current |-> <<>>, previousPlugin |-> "-", previous |-> <<>>,
     replaced |-> FALSE, attachedLast |-> "-", ranks |-> {}]

\* The history after a run ends (by detaching, or by another attach).
RunEnded(h) ==
    IF h.attachedLast = "-" THEN h
    ELSE [h EXCEPT !.previousPlugin = h.attachedLast, !.previous = h.current,
                   !.current = <<>>, !.attachedLast = "-"]

\* The history after createTrack has returned the track at index ret of trks.
TrackCreated(h, trks, ret) ==
    [h EXCEPT !.current = Append(@, trks[ret + 1].id),
              !.ranks = @ \cup {trks[ret + 1].rank}]

\* A second Song object (new Song()) that the same plugin instances are run
\* against: its tracks, its rank counter, its own plugin context, and what
\* the last call on it was.
NewSong ==
    [tracks |-> <<>>, nextTrackRank |-> 1, pluginContext |-> NoContext,
     lastCall |-> TrackCall("new", TRUE, Undefined, Undefined)]

\* The part of the state a privileged call on the second song reads and
\* writes: its own tracks, rank counter and context, and the plugins' pools.
OtherSongTracks ==
    [tracks |-> otherSong.tracks, nextTrackRank |-> otherSong.nextTrackRank,
     pluginContext |-> otherSong.pluginContext,
     pool |-> generatedTrackIdsInternal, minted |-> mintedTrackIds]

\* ------------------------------------------------------ plugin base class
\* The classes of plugin an instance is made of: the three above and one that
\* declares no access to the tracks of a song.
PluginClasses == Plugins \cup {"reader"}

ParamNames == {"track", "instrument"}

\* A parameter's value: undefined (or null), an object that lacks one of the
\* fields its widget asks for, or a value that has all it needs.
ParamValues == {"undefined", "partial", "complete"}

\* params(): the descriptors a class declares, by parameter name.
params(class) ==
    CASE class = "remover" ->
             [n \in {"track"} |-> [widget |-> "TrackSelector", defaultValue |-> "undefined"]]
      [] class = "editor" ->
             [n \in {"instrument"} |->
                 [widget |-> "InstrumentSelector", defaultValue |-> "complete"]]
      [] class = "reader" ->
             [n \in {"track"} |-> [widget |-> "TrackSelector", defaultValue |-> "undefined"]]
      [] OTHER -> [n \in {} |-> [widget |-> "Input", defaultValue |-> "undefined"]]

\* paramsResultInternal = {}
NoParams == [n \in ParamNames |-> "undefined"]

hasAllParamsSet(class, paramsResult) ==
    \A paramName \in DOMAIN params(class) :
        /\ paramsResult[paramName] # "undefined"
        /\ params(class)[paramName].widget \in {"TrackPitchSelector", "InstrumentSelector"}
               => paramsResult[paramName] = "complete"

shouldManualEnableInternal(class) ==
    songAccess(class).createTrack \/ songAccess(class).removeTrack

\* Mutant: the enabled flag is left alone.
maybeSyncEnabledWithParamsReadiness_Never(class, paramsResult, enabled) == enabled

\* maybeSyncEnabledWithParamsReadiness: the enabled flag it leaves.
maybeSyncEnabledWithParamsReadiness(class, paramsResult, enabled) ==
    IF shouldManualEnableInternal(class) /\ ~hasAllParamsSet(class, paramsResult)
    THEN FALSE
    ELSE enabled

\* The loop of resetParamsInternal: every declared parameter gets its default.
defaultParams(class, paramsResult) ==
    [n \in ParamNames |->
        IF n \in DOMAIN params(class) THEN params(class)[n].defaultValue
        ELSE paramsResult[n]]

\* --------------------------------------------------------------- importMIDI
\* A decoded file (new Midi(fileBuffer)): header.ppq, header.tempos,
\* header.timeSignatures and tracks, each with its notes and its volume
\* (controller 7) and pan (controller 10) control changes, here their ticks.
SourceResolutions == {96, 480, 960}

InsertTicks == {0, 10}

MidiHeaders ==
    {[tempos |-> <<>>, timeSignatures |-> <<>>],
     [tempos |-> <<[ticks |-> 0, bpm |-> 120, time |-> Zero],
                   [ticks |-> 48, bpm |-> 60, time |-> <<1, 4>>]>>,
      timeSignatures |-> <<[ticks |-> 48, numerator |-> 3, denominator |-> 4]>>]}

MidiTracks ==
    {[notes |-> <<[ticks |-> 48, durationTicks |-> 24]>>, volume |-> <<48>>, pan |-> <<0>>],
     [notes |-> <<[ticks |-> 1, durationTicks |-> 1]>>, volume |-> <<>>, pan |-> <<>>],
     [notes |-> <<>>, volume |-> <<>>, pan |-> <<>>]}

MidiFiles ==
    [ppq : SourceResolutions, header : MidiHeaders, tracks : SeqsUpTo(MidiTracks, MaxTracks)]

\* Math.round(val * factor)
scaleIntBy(val, factor) == MathRound(RMul(FromInt(val), factor))

\* const ppqScaleFactor = 480 / midi.header.ppq
ppqScaleFactor(midi) == RDiv(FromInt(480), FromInt(midi.ppq))

\* The time-signature events importMIDI builds from the file's.
newTimeSignatureEvents(midi, insertOffset) ==
    [i \in 1..Len(midi.header.timeSignatures) |->
        [ticks |-> insertOffset
                     + scaleIntBy(midi.header.timeSignatures[i].ticks, ppqScaleFactor(midi)),
         numerator |-> midi.header.timeSignatures[i].numerator,
         denominator |-> midi.header.timeSignatures[i].denominator]]

\* The tempo events importMIDI builds: a default event at tick 0 when the
\* insert offset is positive, then the file's.
newTempoEvents(midi, insertOffset) ==
    (IF insertOffset > 0 THEN <<[ticks |-> 0, time |-> Zero, bpm |-> 120]>> ELSE <<>>)
    \o [i \in 1..Len(midi.header.tempos) |->
           [ticks |-> insertOffset
                        + scaleIntBy(midi.header.tempos[i].ticks, ppqScaleFactor(midi)),
            time |-> midi.header.tempos[i].time,
            bpm |-> midi.header.tempos[i].bpm]]

\* What importMIDI passes on for one source track once its destination track
\* exists: the start of the clip, the start and end tick of every note, the
\* ticks of the volume and pan points.
importedTrack(track, insertOffset, factor) ==
    [clipStartTick |-> insertOffset,
     notes |-> [j \in 1..Len(track.notes) |->
                   [startTick |-> insertOffset + scaleIntBy(track.notes[j].ticks, factor),
                    endTick |-> insertOffset
                                  + scaleIntBy(track.notes[j].ticks
                                                 + track.notes[j].durationTicks, factor)]],
     volume |-> [j \in 1..Len(track.volume) |->
                    insertOffset + scaleIntBy(track.volume[j], factor)],
     pan |-> [j \in 1..Len(track.pan) |->
                 insertOffset + scaleIntBy(track.pan[j], factor)]]

\* Mutant: a createTrack that throws is swallowed and the track skipped.
importTrack_Swallow(s, track, insertOffset, factor) ==
    LET r == createTrackImpl(s, "MIDI_TRACK", Undefined, Undefined)
    IN  [ok |-> TRUE, s |-> r.s,
         created |-> IF r.ok THEN <<importedTrack(track, insertOffset, factor)>> ELSE <<>>]

\* The body of the loop over midi.tracks, on the track state s.
importTrack(s, track, insertOffset, factor) ==
    LET r == createTrackImpl(s, "MIDI_TRACK", Undefined, Undefined)
    IN  [ok |-> r.ok, s |-> r.s,
         created |-> IF r.ok THEN <<importedTrack(track, insertOffset, factor)>> ELSE <<>>]

\* for (const track of midi.tracks): a createTrack that throws ends it.
RECURSIVE importTracks(_, _, _, _, _, _)
importTracks(s, srcTracks, insertOffset, factor, i, created) ==
    IF i > Len(srcTracks) THEN [ok |-> TRUE, s |-> s, created |-> created]
    ELSE LET r == importTrack(s, srcTracks[i], insertOffset, factor)
         IN  IF r.ok
             THEN importTracks(r.s, srcTracks, insertOffset, factor, i + 1,
                               created \o r.created)
             ELSE [ok |-> FALSE, s |-> r.s, created |-> created \o r.created]

\* importMIDI on a song: whether it returned (ok), the time signatures, the
\* tempos and the track state it leaves, and what it passed on per track.
importMIDIImpl(sigs, tps, ppq, s, midi, insertAtTick, overwriteTemposAndTimeSignatures) ==
    LET insertOffset == insertAtTick
        sigsAfter == IF overwriteTemposAndTimeSignatures
                        THEN overwriteTimeSignaturesImpl(
                                 sigs, newTimeSignatureEvents(midi, insertOffset))
                        ELSE sigs
        t == IF overwriteTemposAndTimeSignatures
                THEN overwriteTempoChangesImpl(tps, ppq, newTempoEvents(midi, insertOffset))
                ELSE [ok |-> TRUE, tempos |-> tps]
    IN  IF ~t.ok
        THEN [ok |-> FALSE, timeSignatures |-> sigsAfter, tempos |-> t.tempos,
              s |-> s, created |-> <<>>]
        ELSE LET r == importTracks(s, midi.tracks, insertOffset, ppqScaleFactor(midi),
                                   1, <<>>)
             IN  [ok |-> r.ok, timeSignatures |-> sigsAfter, tempos |-> t.tempos,
                  s |-> r.s, created |-> r.created]

\* The record of the last importMIDI call: how many calls there were, its
\* arguments, whether it returned and what it passed on per track.
NoImport ==
    [count |-> 0, ok |-> TRUE, ppq |-> 0, header |-> [tempos |-> <<>>, timeSignatures |-> <<>>],
     tracks |-> <<>>, insertAtTick |-> 0, overwrite |-> FALSE, created |-> <<>>]

\* The history after createTrack has returned the tracks of trks from index
\* `from` on, one after the other.
RECURSIVE TracksCreated(_, _, _)
TracksCreated(h, trks, from) ==
    IF from >= Len(trks) THEN h
    ELSE TracksCreated(TrackCreated(h, trks, from), trks, from + 1)

\* ------------------------------------------------------------------- state
Init ==
    /\ PPQ = 0
    /\ tempos = <<>>
    /\ resolutionChangedLate = FALSE
    /\ last = Call("new", TRUE, -1, -1, <<>>)
    /\ tracks = <<>>
    /\ nextTrackRank = 1
    /\ pluginContext = NoContext
    /\ generatedTrackIdsInternal = [p \in Plugins |-> <<>>]
    /\ mintedTrackIds = 0
    /\ lastTrackCall = TrackCall("new", TRUE, Undefined, Undefined)
    /\ trackHistory = NoHistory
    /\ otherSong = NewSong
    /\ pluginClass = "-"
    /\ enabledInternal = TRUE
    /\ paramsResultInternal = NoParams
    /\ lastPluginCall = "new"
    /\ timeSignatures = <<>>
    /\ lastSignatureCall = SignatureCall("new", -1, -1, <<>>)
    /\ lastImport = NoImport

\* ------------------------------------------------------- timeline actions
setResolution(resolution) ==
    /\ PPQ' = resolution
    /\ resolutionChangedLate' =
           (resolutionChangedLate \/ (tempos # <<>> /\ resolution # PPQ))
    /\ last' = Call("setResolution", TRUE, -1, -1, <<>>)
    /\ UNCHANGED <<tempos, trackVars, pluginVars, signatureVars, lastImport>>

createTempoChange(ticks, bpm) ==
    /\ Len(tempos) < MaxTempos
    /\ LET r == createTempoChangeImpl(tempos, PPQ, ticks, bpm)
       IN  /\ tempos' = r.tempos
           /\ last' = Call("createTempoChange", r.ok, ticks, r.ret, <<>>)
    /\ UNCHANGED <<PPQ, resolutionChangedLate, trackVars, pluginVars, signatureVars, lastImport>>

overwriteTempoChanges(tempoEvents) ==
    /\ LET r == overwriteTempoChangesImpl(tempos, PPQ, tempoEvents)
       IN  /\ tempos' = r.tempos
           /\ last' = Call("overwriteTempoChanges", r.ok, -1, -1, tempoEvents)
    /\ UNCHANGED <<PPQ, resolutionChangedLate, trackVars, pluginVars, signatureVars, lastImport>>

\* tempoEvent is the event object at index i of the song's tempo array.
updateTempo(i, newBPM) ==
    /\ i < Len(tempos)
    /\ tempos' = retimingTempoEvents([tempos EXCEPT ![i + 1].bpm = newBPM], PPQ)
    /\ last' = Call("updateTempo", TRUE, -1, -1, <<>>)
    /\ UNCHANGED <<PPQ, resolutionChangedLate, trackVars, pluginVars, signatureVars, lastImport>>

SetResolutionStep == \E resolution \in Resolutions : setResolution(resolution)

CreateTempoChangeStep == \E ticks \in Ticks, bpm \in BPMs : createTempoChange(ticks, bpm)

OverwriteTempoChangesStep == \E tempoEvents \in TempoInputs : overwriteTempoChanges(tempoEvents)

UpdateTempoStep == \E i \in 0..(MaxTempos - 1), newBPM \in BPMs : updateTempo(i, newBPM)

TimelineNext ==
    \/ SetResolutionStep
    \/ CreateTempoChangeStep
    \/ OverwriteTempoChangesStep
    \/ UpdateTempoStep

\* The timeline of a song: resolution and tempo events.
TimelineSpec == Init /\ [][TimelineNext]_vars

\* ---------------------------------------------------------- track actions
Store(r, op, trackId) ==
    /\ tracks' = r.s.tracks
    /\ nextTrackRank' = r.s.nextTrackRank
    /\ pluginContext' = r.s.pluginContext
    /\ generatedTrackIdsInternal' = r.s.pool
    /\ mintedTrackIds' = r.s.minted
    /\ lastTrackCall' = TrackCall(op, r.ok, r.ret, trackId)
    /\ trackHistory' = IF op \in {"createTrack", "cloneTrack"} /\ r.ok
                          THEN TrackCreated(trackHistory, r.s.tracks, r.ret)
                          ELSE trackHistory
    /\ UNCHANGED otherSong

setPluginContextInternal(plugin) ==
    /\ pluginContext' = newPluginContext(plugin)
    /\ lastTrackCall' = TrackCall("setPluginContextInternal", TRUE, Undefined, Undefined)
    /\ trackHistory' = [RunEnded(trackHistory) EXCEPT
                            !.attachedLast = plugin,
                            !.replaced = (trackHistory.attachedLast # "-")]
    /\ UNCHANGED <<tracks, nextTrackRank, generatedTrackIdsInternal, mintedTrackIds,
                   otherSong>>
    /\ UNCHANGED <<timelineVars, pluginVars, signatureVars, lastImport>>

clearPluginContextInternal ==
    /\ pluginContext' = NoContext
    /\ lastTrackCall' = TrackCall("clearPluginContextInternal", TRUE, Undefined, Undefined)
    /\ trackHistory' = RunEnded(trackHistory)
    /\ UNCHANGED <<tracks, nextTrackRank, generatedTrackIdsInternal, mintedTrackIds,
                   otherSong>>
    /\ UNCHANGED <<timelineVars, pluginVars, signatureVars, lastImport>>

\* The guard keeps the model finite: no more than MaxTracks tracks, MaxIds
\* identifiers and ranks up to MaxRank.
WithinBounds(r) ==
    /\ Len(r.s.tracks) <= MaxTracks
    /\ r.s.minted <= MaxIds
    /\ r.s.nextTrackRank <= MaxRank + 1

createTrack(type, index, rank) ==
    /\ LET r == createTrackImpl(SongTracks, type, index, rank)
       IN  WithinBounds(r) /\ Store(r, "createTrack", Undefined)
    /\ UNCHANGED <<timelineVars, pluginVars, signatureVars, lastImport>>

cloneTrack(trackId, type) ==
    /\ LET r == cloneTrackImpl(SongTracks, trackId, type)
       IN  WithinBounds(r) /\ Store(r, "cloneTrack", trackId)
    /\ UNCHANGED <<timelineVars, pluginVars, signatureVars, lastImport>>

removeTrack(trackId) ==
    /\ Store(removeTrackImpl(SongTracks, trackId), "removeTrack", trackId)
    /\ UNCHANGED <<timelineVars, pluginVars, signatureVars, lastImport>>

TrackIds == 1..MaxIds

SetPluginContextStep == \E plugin \in Plugins : setPluginContextInternal(plugin)

ClearPluginContextStep == clearPluginContextInternal

CreateTrackStep ==
    \E type \in TrackTypes, index \in {Undefined} \cup 0..Len(tracks),
       rank \in {Undefined} \cup 1..MaxRank :
        createTrack(type, index, rank)

\* The track to clone is one of this song's tracks, or a track of another
\* song (whose identifier may or may not occur in this song).
CloneTrackStep ==
    \E trackId \in TrackIds \cup {0}, type \in TrackTypes :
        /\ \A i \in 1..Len(tracks) : tracks[i].id = trackId => tracks[i].type = type
        /\ cloneTrack(trackId, type)

RemoveTrackStep == \E trackId \in TrackIds : removeTrack(trackId)

TrackNext ==
    \/ SetPluginContextStep
    \/ ClearPluginContextStep
    \/ CreateTrackStep
    \/ CloneTrackStep
    \/ RemoveTrackStep

\* The tracks of a song under the plugin execution context.
TrackSpec == Init /\ [][TrackNext]_vars

\* ------------------------------------------------- actions on a second song
\* The privileged calls on the second song store what they leave in
\* otherSong, and in the pools of the plugins, which both songs share.
StoreOther(r, op, trackId) ==
    /\ otherSong' = [tracks |-> r.s.tracks, nextTrackRank |-> r.s.nextTrackRank,
                     pluginContext |-> r.s.pluginContext,
                     lastCall |-> TrackCall(op, r.ok, r.ret, trackId)]
    /\ generatedTrackIdsInternal' = r.s.pool
    /\ mintedTrackIds' = r.s.minted
    /\ UNCHANGED <<tracks, nextTrackRank, pluginContext, lastTrackCall, trackHistory>>
    /\ UNCHANGED <<timelineVars, pluginVars, signatureVars, lastImport>>

otherSetPluginContextInternal(plugin) ==
    /\ otherSong' = [otherSong EXCEPT
                         !.pluginContext = newPluginContext(plugin),
                         !.lastCall = TrackCall("setPluginContextInternal", TRUE,
                                                Undefined, Undefined)]
    /\ UNCHANGED <<tracks, nextTrackRank, pluginContext, generatedTrackIdsInternal,
                   mintedTrackIds, lastTrackCall, trackHistory>>
    /\ UNCHANGED <<timelineVars, pluginVars, signatureVars, lastImport>>

otherClearPluginContextInternal ==
    /\ otherSong' = [otherSong EXCEPT
                         !.pluginContext = NoContext,
                         !.lastCall = TrackCall("clearPluginContextInternal", TRUE,
                                                Undefined, Undefined)]
    /\ UNCHANGED <<tracks, nextTrackRank, pluginContext, generatedTrackIdsInternal,
                   mintedTrackIds, lastTrackCall, trackHistory>>
    /\ UNCHANGED <<timelineVars, pluginVars, signatureVars, lastImport>>

otherCreateTrack(type, index, rank) ==
    LET r == createTrackImpl(OtherSongTracks, type, index, rank)
    IN  WithinBounds(r) /\ StoreOther(r, "createTrack", Undefined)

\* The plugins run against the two songs: both declare createTrack, one of
\* them removeTrack as well.
SongsPlugins == {"creator", "editor"}

SongsAttachStep == \E plugin \in SongsPlugins : setPluginContextInternal(plugin)

OtherSetPluginContextStep == \E plugin \in SongsPlugins : otherSetPluginContextInternal(plugin)

\* In the runs over two songs a track is created as createTrack({ type }):
\* appended, with the next rank of its song.
AppendTrackStep == \E type \in TrackTypes : createTrack(type, Undefined, Undefined)

OtherAppendTrackStep == \E type \in TrackTypes : otherCreateTrack(type, Undefined, Undefined)

\* The first song takes every privileged call; the second one is attached
\* to, appended to and detached from (its cloneTrack would go through the
\* same createTrack, its removeTrack reads neither counter nor pool).
SongsNext ==
    \/ SongsAttachStep
    \/ ClearPluginContextStep
    \/ AppendTrackStep
    \/ CloneTrackStep
    \/ RemoveTrackStep
    \/ OtherSetPluginContextStep
    \/ otherClearPluginContextInternal
    \/ OtherAppendTrackStep

\* Two songs that the same plugin instances are attached to, in turn or at
\* the same time.
SongsSpec == Init /\ [][SongsNext]_vars

\* --------------------------------------------------------- plugin actions
\* resetInternal on an instance of the class: resetParamsInternal, then the
\* manual-enable gate.
resetInternalOf(class) ==
    /\ paramsResultInternal' = defaultParams(class, paramsResultInternal)
    /\ enabledInternal' =
           IF shouldManualEnableInternal(class) THEN FALSE
           ELSE maybeSyncEnabledWithParamsReadiness(
                    class, defaultParams(class, paramsResultInternal), enabledInternal)

\* static create(): new this(), resetInternal(), init().
create(class) ==
    /\ pluginClass = "-"
    /\ pluginClass' = class
    /\ resetInternalOf(class)
    /\ lastPluginCall' = "create"
    /\ UNCHANGED <<timelineVars, trackVars, signatureVars, lastImport>>

resetInternal ==
    /\ pluginClass # "-"
    /\ resetInternalOf(pluginClass)
    /\ lastPluginCall' = "resetInternal"
    /\ UNCHANGED <<pluginClass, timelineVars, trackVars, signatureVars, lastImport>>

setParamsInternal(newParams) ==
    /\ pluginClass # "-"
    /\ paramsResultInternal' = newParams
    /\ enabledInternal' =
           maybeSyncEnabledWithParamsReadiness(pluginClass, newParams, enabledInternal)
    /\ lastPluginCall' = "setParamsInternal"
    /\ UNCHANGED <<pluginClass, timelineVars, trackVars, signatureVars, lastImport>>

resetParamsInternal ==
    /\ pluginClass # "-"
    /\ paramsResultInternal' = defaultParams(pluginClass, paramsResultInternal)
    /\ enabledInternal' =
           maybeSyncEnabledWithParamsReadiness(
               pluginClass, defaultParams(pluginClass, paramsResultInternal), enabledInternal)
    /\ lastPluginCall' = "resetParamsInternal"
    /\ UNCHANGED <<pluginClass, timelineVars, trackVars, signatureVars, lastImport>>

setEnabledInternal(enabled) ==
    /\ pluginClass # "-"
    /\ enabledInternal' = enabled
    /\ lastPluginCall' = "setEnabledInternal"
    /\ UNCHANGED <<pluginClass, paramsResultInternal, timelineVars, trackVars, signatureVars, lastImport>>

CreateStep == \E class \in PluginClasses : create(class)

SetParamsStep == \E newParams \in [ParamNames -> ParamValues] : setParamsInternal(newParams)

SetEnabledStep == \E enabled \in BOOLEAN : setEnabledInternal(enabled)

PluginNext ==
    \/ CreateStep
    \/ resetInternal
    \/ SetParamsStep
    \/ resetParamsInternal
    \/ SetEnabledStep

\* One plugin instance in the hands of its host.
PluginSpec == Init /\ [][PluginNext]_vars

\* ------------------------------------------------- time-signature actions
createTimeSignature(ticks, numerator, denominator) ==
    /\ Len(timeSignatures) < MaxSignatures
    /\ LET r == createTimeSignatureImpl(timeSignatures, ticks, numerator, denominator)
       IN  /\ timeSignatures' = r.timeSignatures
           /\ lastSignatureCall' = SignatureCall("createTimeSignature", ticks, r.ret, <<>>)
    /\ UNCHANGED <<timelineVars, trackVars, pluginVars, lastImport>>

overwriteTimeSignatures(newTimeSignatures) ==
    /\ timeSignatures' = overwriteTimeSignaturesImpl(timeSignatures, newTimeSignatures)
    /\ lastSignatureCall' = SignatureCall("overwriteTimeSignatures", -1, -1, newTimeSignatures)
    /\ UNCHANGED <<timelineVars, trackVars, pluginVars, lastImport>>

CreateTimeSignatureStep ==
    \E ticks \in Ticks, numerator \in Numerators, denominator \in Denominators :
        createTimeSignature(ticks, numerator, denominator)

OverwriteTimeSignaturesStep ==
    \E newTimeSignatures \in SignatureInputs : overwriteTimeSignatures(newTimeSignatures)

SignatureNext ==
    \/ CreateTimeSignatureStep
    \/ OverwriteTimeSignaturesStep

\* The time signatures of a song.
SignatureSpec == Init /\ [][SignatureNext]_vars

\* ---------------------------------------------------------- import actions
importMIDI(midi, insertAtTick, overwriteTemposAndTimeSignatures) ==
    /\ lastImport.count < MaxImports
    /\ \E r \in {importMIDIImpl(timeSignatures, tempos, PPQ, SongTracks, midi,
                                insertAtTick, overwriteTemposAndTimeSignatures)} :
           /\ WithinBounds(r)
           /\ timeSignatures' = r.timeSignatures
           /\ tempos' = r.tempos
           /\ tracks' = r.s.tracks
           /\ nextTrackRank' = r.s.nextTrackRank
           /\ pluginContext' = r.s.pluginContext
           /\ generatedTrackIdsInternal' = r.s.pool
           /\ mintedTrackIds' = r.s.minted
           /\ trackHistory' = TracksCreated(trackHistory, r.s.tracks, Len(tracks))
           /\ lastImport' =
                  [count |-> lastImport.count + 1, ok |-> r.ok, ppq |-> midi.ppq,
                   header |-> midi.header, tracks |-> midi.tracks,
                   insertAtTick |-> insertAtTick,
                   overwrite |-> overwriteTemposAndTimeSignatures,
                   created |-> r.created]
    /\ UNCHANGED <<PPQ, resolutionChangedLate, last, lastTrackCall, lastSignatureCall,
                   otherSong, pluginVars>>

ImportMIDIStep ==
    \E midi \in MidiFiles, insertAtTick \in InsertTicks,
       overwriteTemposAndTimeSignatures \in BOOLEAN :
        importMIDI(midi, insertAtTick, overwriteTemposAndTimeSignatures)

\* The hosts of importMIDI: with no plugin, and plugins with and without the
\* access to create tracks.
ImportAttachStep == \E plugin \in {"creator", "remover"} : setPluginContextInternal(plugin)

ImportNext ==
    \/ SetResolutionStep
    \/ ImportAttachStep
    \/ ImportMIDIStep

\* Song.importMIDI on a song whose resolution and plugin context are set, or
\* not set, beforehand.
ImportSpec == Init /\ [][ImportNext]_vars

Next == TimelineNext \/ TrackNext \/ SongsNext \/ PluginNext \/ SignatureNext \/ ImportNext

Spec == Init /\ [][Next]_vars

\* ================================================================== claims
NoDuplicateTicks(tps) ==
    \A i, j \in 1..Len(tps) : tps[i].ticks = tps[j].ticks => i = j

ResolutionFixed == PPQ > 0 /\ ~resolutionChangedLate

\* The index (from 1) of the last event of tps with a tick below `tick`.
LastBefore(tps, tick) ==
    CHOOSE j \in 1..Len(tps) :
        /\ tps[j].ticks < tick
        /\ \A k \in 1..Len(tps) : tps[k].ticks < tick => k <= j

\* C1: in every reachable state the tempo sequence is sorted ascending by tick
\* (neighbours never decrease) and, when non-empty, starts at tick 0.
C1_SortedFromTickZero ==
    /\ \A i \in 1..(Len(tempos) - 1) : tempos[i].ticks <= tempos[i + 1].ticks
    /\ tempos # <<>> => tempos[1].ticks = 0

\* C1 witness: three events at different ticks, the last one created having
\* been inserted between two older ones.
C1_Witness ==
    /\ Len(tempos) = 3
    /\ last.op = "createTempoChange" /\ last.ok /\ last.ret = 1
    /\ tempos[1].ticks < tempos[2].ticks /\ tempos[2].ticks < tempos[3].ticks

\* C2: with the resolution fixed before the first tempo event, an event at
\* tick 0 has time 0 and every later event's time is the stored time of the
\* last event with a strictly smaller tick plus
\* (tick difference) * 60 / (that event's bpm * resolution).
C2_TimesIntegrateSegments ==
    ResolutionFixed =>
        \A i \in 1..Len(tempos) :
            IF tempos[i].ticks = 0 THEN tempos[i].time = Zero
            ELSE LET base == tempos[LastBefore(tempos, tempos[i].ticks)]
                 IN  tempos[i].time =
                         RAdd(base.time,
                              Num((tempos[i].ticks - base.ticks) * 60, base.bpm * PPQ))

\* C2 witness: three events at increasing ticks with different tempos, just
\* after the tempo of the first one was changed.
C2_Witness ==
    /\ ResolutionFixed
    /\ Len(tempos) = 3
    /\ tempos[1].ticks < tempos[2].ticks /\ tempos[2].ticks < tempos[3].ticks
    /\ tempos[1].bpm # tempos[2].bpm
    /\ last.op = "updateTempo"

\* C3 as stated: no two events of the tempo sequence have the same tick.
C3_NoDuplicateTicks == NoDuplicateTicks(tempos)

\* The call just made inserted an event at a tick that was taken: a
\* createTempoChange at the tick of an existing event, or an
\* overwriteTempoChanges whose input holds one tick twice.
C3_InsertedAtTakenTick ==
    \/ /\ last'.op = "createTempoChange"
       /\ \E i \in 1..Len(tempos) : tempos[i].ticks = last'.ticks
    \/ /\ last'.op = "overwriteTempoChanges"
       /\ last'.repeated

\* C3 as amended: a tempo sequence without duplicate ticks keeps having none
\* through every call except a createTempoChange at the tick of an existing
\* event and an overwriteTempoChanges whose input holds one tick twice.
C3_DuplicatesOnlyFromTakenTick ==
    [][(NoDuplicateTicks(tempos) /\ ~C3_InsertedAtTakenTick)
           => NoDuplicateTicks(tempos')]_vars

\* C3 witness: three events at three different ticks, the last one created at
\* a tick that was free.
C3_Witness ==
    /\ Len(tempos) = 3 /\ NoDuplicateTicks(tempos)
    /\ last.op = "createTempoChange" /\ last.ok

\* C4: createTempoChange at a tick that already holds an event keeps the old
\* events and places the new event at a higher index than every event that
\* was already at that tick.
C4_NewEventAfterExisting ==
    [][(/\ last'.op = "createTempoChange" /\ last'.ok
        /\ \E i \in 1..Len(tempos) : tempos[i].ticks = last'.ticks)
           => /\ Len(tempos') = Len(tempos) + 1
              /\ \A i \in 1..Len(tempos') :
                     (i - 1 # last'.ret /\ tempos'[i].ticks = last'.ticks)
                         => i - 1 < last'.ret]_vars

\* C5: createTempoChange throws when the resolution is not set (<= 0) and when
\* the tempo sequence is empty and the tick is not 0, and then leaves the
\* tempo sequence as it was.
C5_CreateTempoChangeFails ==
    [][(/\ last'.op = "createTempoChange"
        /\ (PPQ <= 0 \/ (tempos = <<>> /\ last'.ticks # 0)))
           => (~last'.ok /\ tempos' = tempos)]_vars

\* C5 witness: createTempoChange has thrown for want of a resolution on a
\* song that holds a tempo event.
C5_Witness ==
    /\ last.op = "createTempoChange" /\ ~last.ok
    /\ PPQ <= 0 /\ tempos # <<>>

\* C6: after overwriteTempoChanges returns for a non-empty input whose
\* earliest tick is 0, the first stored event has tick 0 and time 0.
C6_OverwriteStartsAtZero ==
    (/\ last.op = "overwriteTempoChanges" /\ last.ok
     /\ last.fromZero)
        => /\ tempos # <<>>
           /\ tempos[1].ticks = 0
           /\ tempos[1].time = Zero

\* C6 witness: an overwrite has returned for an input of two events at
\* different ticks (each of which came with a non-zero time) on a song whose
\* resolution is set.
C6_Witness ==
    /\ last.op = "overwriteTempoChanges" /\ last.ok /\ last.fromZero
    /\ PPQ > 0 /\ Len(tempos) = 2 /\ tempos[2].ticks > 0

\* C7: overwriteTempoChanges throws on an empty input and on an input whose
\* earliest tick is not 0, and then the song keeps its tempo sequence.
C7_OverwriteRejects ==
    [][(/\ last'.op = "overwriteTempoChanges"
        /\ ~last'.fromZero)
           => (~last'.ok /\ tempos' = tempos)]_vars

\* C7 witness: an overwrite whose input starts after tick 0 has thrown on a
\* song that holds tempo events at two ticks.
C7_Witness ==
    /\ last.op = "overwriteTempoChanges" /\ ~last.ok
    /\ ~last.empty /\ ~last.fromZero
    /\ Len(tempos) >= 2 /\ tempos[Len(tempos)].ticks > 0

\* C8: with a resolution fixed before the first tempo event and a non-empty
\* tempo sequence, converting a tick to seconds and back moves it by at most 1.
C8_RoundTripWithinOneTick ==
    (ResolutionFixed /\ tempos # <<>>) =>
        \A t \in QueryTicks : Abs(secondsToTick(tickToSeconds(t)) - t) <= 1

\* C8 witness: a song with three events at increasing ticks and two different
\* tempos, so that the ticks asked about fall in segments of different tempo.
C8_Witness ==
    /\ ResolutionFixed
    /\ Len(tempos) = 3
    /\ tempos[1].ticks < tempos[2].ticks /\ tempos[2].ticks < tempos[3].ticks
    /\ tempos[1].bpm # tempos[2].bpm /\ tempos[2].bpm # tempos[3].bpm

\* C9: with resolution R and a single tempo event (tick 0, bpm B),
\* tickToSeconds(t) = t * 60 / (B * R) for every tick t >= 0.
C9_ConstantTempo ==
    (PPQ > 0 /\ Len(tempos) = 1) =>
        \A t \in QueryTicks : tickToSeconds(t) = Num(t * 60, tempos[1].bpm * PPQ)

\* C9 witness: a song with one tempo event whose tempo was just changed.
C9_Witness ==
    /\ PPQ > 0 /\ Len(tempos) = 1
    /\ last.op = "updateTempo"

\* The attached plugin, if any, declares the access.
Declares(accessName) ==
    pluginContext.attached /\ songAccess(pluginContext.plugin)[accessName]

\* C10: createTrack and cloneTrack throw without a context and without the
\* createTrack access, removeTrack without a context and without the
\* removeTrack access; a call that throws leaves the tracks, the rank counter,
\* the plugins' identifier pools and the context (its counter) unchanged.
C10_PrivilegedCallsFail ==
    [][(/\ (\/ /\ lastTrackCall'.op \in {"createTrack", "cloneTrack"}
               /\ ~Declares("createTrack")
            \/ /\ lastTrackCall'.op = "removeTrack"
               /\ ~Declares("removeTrack")))
           => /\ ~lastTrackCall'.ok
              /\ UNCHANGED <<tracks, nextTrackRank, generatedTrackIdsInternal,
                             pluginContext>>]_vars

\* C10 witness: createTrack has thrown under an attached plugin that does
\* not declare createTrack, on a song that holds tracks.
C10_Witness ==
    /\ lastTrackCall.op = "createTrack" /\ ~lastTrackCall.ok
    /\ pluginContext.attached /\ ~songAccess(pluginContext.plugin).createTrack
    /\ tracks # <<>>

\* Whether s is a prefix of t.
IsPrefix(s, t) == Len(s) <= Len(t) /\ SubSeq(t, 1, Len(s)) = s

\* The call just made is a createTrack, directly or through cloneTrack, that
\* returned.
TrackCreatedNow == lastTrackCall'.op \in {"createTrack", "cloneTrack"} /\ lastTrackCall'.ok

\* C11: when a plugin runs again right after a run of its own (the context
\* attached anew in between) and has created as many tracks as in that
\* earlier run, the ids it got are those of the earlier run, in that order.
C11_ReplaySameIds ==
    (/\ pluginContext.attached
     /\ trackHistory.previousPlugin = pluginContext.plugin
     /\ Len(trackHistory.current) = Len(trackHistory.previous))
        => trackHistory.current = trackHistory.previous

\* C11 witness: the second of two runs in a row of one plugin, each of which
\* created two tracks.
C11_Witness ==
    /\ pluginContext.attached
    /\ trackHistory.previousPlugin = pluginContext.plugin
    /\ Len(trackHistory.current) = 2 /\ Len(trackHistory.previous) = 2

\* C12: the createTrack that returns after k earlier ones since the attach
\* returns a track with entry k of the plugin's pool as its id; when k is the
\* pool size the pool grows by that one entry, when k is smaller the pools
\* stay as they are; no call changes or removes an entry of any pool.
C12_IdsByCallOrder ==
    [][/\ \A p \in Plugins :
              IsPrefix(generatedTrackIdsInternal[p], generatedTrackIdsInternal'[p])
       /\ TrackCreatedNow =>
              LET k == Len(trackHistory.current)
                  before == generatedTrackIdsInternal[pluginContext.plugin]
                  after == generatedTrackIdsInternal'[pluginContext.plugin]
              IN  /\ k = pluginContext.numTracksCreatedByPlugin
                  /\ k < Len(after)
                  /\ tracks'[lastTrackCall'.ret + 1].id = after[k + 1]
                  /\ k = Len(before) => Len(after) = k + 1
                  /\ k < Len(before) =>
                         generatedTrackIdsInternal' = generatedTrackIdsInternal]_vars

\* C12 witness: in a second run, the second createTrack has returned with an
\* id recorded in the first run.
C12_Witness ==
    /\ lastTrackCall.op = "createTrack" /\ lastTrackCall.ok
    /\ Len(trackHistory.current) = 2
    /\ Len(trackHistory.previous) = 2
    /\ trackHistory.previousPlugin = pluginContext.plugin
    /\ mintedTrackIds = 2

\* C13: the tracks of the song have pairwise different ids (so the track
\* cloneTrack returns has an id different from its source's).
C13_DistinctTrackIds ==
    \A i, j \in 1..Len(tracks) : tracks[i].id = tracks[j].id => i = j

\* C14: the ranks of the song's tracks are pairwise different, and a track is
\* never created with a rank that a track of this song had before.
C14_RanksNeverReused ==
    /\ [](\A i, j \in 1..Len(tracks) : tracks[i].rank = tracks[j].rank => i = j)
    /\ [][TrackCreatedNow =>
              tracks'[lastTrackCall'.ret + 1].rank \notin trackHistory.ranks]_vars

\* C19: a privileged call returns only under the plugin of the latest attach,
\* and only when that plugin declares the access: none returns after a detach
\* until the next attach, and an attach, also one that replaces a context
\* that was not detached, installs its own plugin with a counter of 0.
C19_NoCapabilityLeak ==
    [][/\ lastTrackCall'.op = "setPluginContextInternal" =>
              /\ pluginContext'.attached
              /\ pluginContext'.plugin = trackHistory'.attachedLast
              /\ pluginContext'.numTracksCreatedByPlugin = 0
       /\ TrackCreatedNow =>
              /\ trackHistory.attachedLast # "-"
              /\ songAccess(trackHistory.attachedLast).createTrack
       /\ (lastTrackCall'.op = "removeTrack" /\ lastTrackCall'.ok) =>
              /\ trackHistory.attachedLast # "-"
              /\ songAccess(trackHistory.attachedLast).removeTrack]_vars

\* C19 witness: createTrack has thrown under a plugin without the createTrack
\* access that was attached over the context of a plugin that has it and
\* created a track with it.
C19_Witness ==
    /\ lastTrackCall.op = "createTrack" /\ ~lastTrackCall.ok
    /\ trackHistory.replaced
    /\ trackHistory.attachedLast = "remover"
    /\ trackHistory.previousPlugin = "creator" /\ trackHistory.previous # <<>>

\* C20: under a plugin with the removeTrack access, removeTrack(id) returns;
\* when a track has that id it splices out the first such track and returns
\* it, the others keeping their order; when none has, it returns null and the
\* track list stays as it is. The rank counter, the pools and the context
\* (its counter) are not changed.
C20_RemoveTrackFrame ==
    [][(lastTrackCall'.op = "removeTrack" /\ Declares("removeTrack")) =>
          LET id == lastTrackCall'.trackId
              holders == {i \in 1..Len(tracks) : tracks[i].id = id}
          IN  /\ lastTrackCall'.ok
              /\ UNCHANGED <<nextTrackRank, generatedTrackIdsInternal, pluginContext>>
              /\ IF holders = {}
                    THEN lastTrackCall'.ret = Undefined /\ tracks' = tracks
                    ELSE LET first == CHOOSE i \in holders : \A j \in holders : i <= j
                         IN  /\ lastTrackCall'.ret = first - 1
                             /\ tracks' = SubSeq(tracks, 1, first - 1)
                                               \o SubSeq(tracks, first + 1, Len(tracks))]_vars

\* C20 witness: removeTrack has removed the first of two tracks that had the
\* id it was given.
C20_Witness ==
    /\ lastTrackCall.op = "removeTrack" /\ lastTrackCall.ok
    /\ lastTrackCall.ret = 0
    /\ Len(tracks) = 1 /\ tracks[1].id = lastTrackCall.trackId

\* The plugin declares createTrack or removeTrack and lacks a parameter.
NotReady ==
    /\ pluginClass # "-"
    /\ songAccess(pluginClass).createTrack \/ songAccess(pluginClass).removeTrack
    /\ ~hasAllParamsSet(pluginClass, paramsResultInternal)

\* C15 as stated: a created plugin that declares createTrack or removeTrack
\* and does not have all its declared parameters populated is disabled.
C15_DisabledUntilReady == NotReady => ~enabledInternal

\* C15 as amended: such a plugin is disabled when create, resetInternal,
\* setParamsInternal or resetParamsInternal returns, and setEnabledInternal
\* sets the flag to its argument whatever the parameters are: a plugin found
\* enabled without its parameters was enabled by setEnabledInternal(true).
C15_DisabledAtParamChanges ==
    /\ [][(lastPluginCall' \in {"create", "resetInternal", "setParamsInternal",
                               "resetParamsInternal"} /\ NotReady')
              => ~enabledInternal']_vars
    /\ []((NotReady /\ enabledInternal) => lastPluginCall = "setEnabledInternal")

\* C15 witness: setParamsInternal has taken the instrument away from an
\* enabled plugin that needs it for creating and removing tracks.
C15_Witness ==
    /\ pluginClass = "editor"
    /\ lastPluginCall = "setParamsInternal"
    /\ paramsResultInternal["instrument"] = "partial"
    /\ ~enabledInternal

SortedByTicks(tps) == \A i \in 1..(Len(tps) - 1) : tps[i].ticks <= tps[i + 1].ticks

\* C18 as stated: the time-signature sequence is sorted ascending by tick and
\* has no two events at the same tick.
C18_SignaturesSortedNoDuplicates ==
    SortedByTicks(timeSignatures) /\ NoDuplicateTicks(timeSignatures)

\* C18 as amended: createTimeSignature adds one event, keeps a sorted sequence
\* sorted and, at a tick that was free, a sequence without duplicate ticks
\* without them; after overwriteTimeSignatures the sequence is in tick order
\* exactly when the input was, and holds a tick twice exactly when the input
\* did.
C18_SignaturesAsGiven ==
    [][/\ lastSignatureCall'.op = "createTimeSignature" =>
              /\ Len(timeSignatures') = Len(timeSignatures) + 1
              /\ timeSignatures'[lastSignatureCall'.ret + 1].ticks = lastSignatureCall'.ticks
              /\ SortedByTicks(timeSignatures) => SortedByTicks(timeSignatures')
              /\ (/\ NoDuplicateTicks(timeSignatures)
                  /\ \A i \in 1..Len(timeSignatures) :
                         timeSignatures[i].ticks # lastSignatureCall'.ticks)
                     => NoDuplicateTicks(timeSignatures')
       /\ lastSignatureCall'.op = "overwriteTimeSignatures" =>
              /\ SortedByTicks(timeSignatures') <=> lastSignatureCall'.ascending
              /\ NoDuplicateTicks(timeSignatures') <=> ~lastSignatureCall'.repeated]_vars

\* C18 witness: createTimeSignature has put an event between two others, at a
\* tick of its own.
C18_Witness ==
    /\ lastSignatureCall.op = "createTimeSignature" /\ lastSignatureCall.ret = 1
    /\ Len(timeSignatures) = 3
    /\ timeSignatures[1].ticks < timeSignatures[2].ticks
    /\ timeSignatures[2].ticks < timeSignatures[3].ticks

\* The step just taken is a call of importMIDI.
Imported == lastImport'.count = lastImport.count + 1

\* C16 as stated: importMIDI on a song with no plugin context attached
\* returns, and adds one destination track per source track (the file's
\* tempos and time signatures left out of the import, so that no failure of
\* the tempo overwrite is in play).
C16_ImportNeedsNoContext ==
    [][(Imported /\ ~pluginContext.attached /\ ~lastImport'.overwrite)
          => /\ lastImport'.ok
             /\ Len(tracks') = Len(tracks) + Len(lastImport'.tracks)]_vars

\* C16 as amended: importMIDI of a file with a track throws, adding no track,
\* when no context is attached or the attached plugin does not declare
\* createTrack; with no context it returns for a file without tracks whose
\* tempos are not imported; and whenever it returns it has added one
\* destination track per source track, after the tracks that were there.
C16_ImportCreatesThroughContext ==
    [][Imported =>
          /\ (~Declares("createTrack") /\ lastImport'.tracks # <<>>)
                 => (~lastImport'.ok /\ tracks' = tracks)
          /\ (~pluginContext.attached /\ lastImport'.tracks = <<>>
                  /\ ~lastImport'.overwrite)
                 => lastImport'.ok
          /\ lastImport'.ok
                 => /\ Len(tracks') = Len(tracks) + Len(lastImport'.tracks)
                    /\ SubSeq(tracks', 1, Len(tracks)) = tracks
                    /\ Len(lastImport'.created) = Len(lastImport'.tracks)]_vars

\* C16 witness: importMIDI of a file with two tracks has thrown on a song
\* with no context attached.
C16_Witness ==
    /\ lastImport.count > 0 /\ ~lastImport.ok
    /\ ~pluginContext.attached
    /\ Len(lastImport.tracks) = 2 /\ ~lastImport.overwrite
    /\ tracks = <<>>

\* round(f * destinationResolution / sourceResolution) + insertionOffset, for
\* the call recorded in imp and a song of resolution `resolution`.
Rescaled(f, imp, resolution) ==
    MathRound(Num(f * resolution, imp.ppq)) + imp.insertAtTick

\* C17: importMIDI into a song whose resolution is set maps every foreign
\* tick f (note start and end, control-change, tempo and time-signature
\* ticks) to round(f * resolution of the song / source resolution) + insert
\* offset.
C17_RescaledToSongResolution ==
    [][(Imported /\ PPQ > 0) =>
          LET imp == lastImport'
          IN  /\ \A i \in 1..Len(imp.created) :
                     LET src == imp.tracks[i]
                         dst == imp.created[i]
                     IN  /\ \A j \in 1..Len(src.notes) :
                                /\ dst.notes[j].startTick =
                                       Rescaled(src.notes[j].ticks, imp, PPQ)
                                /\ dst.notes[j].endTick =
                                       Rescaled(src.notes[j].ticks
                                                  + src.notes[j].durationTicks, imp, PPQ)
                         /\ \A j \in 1..Len(src.volume) :
                                dst.volume[j] = Rescaled(src.volume[j], imp, PPQ)
                         /\ \A j \in 1..Len(src.pan) :
                                dst.pan[j] = Rescaled(src.pan[j], imp, PPQ)
              /\ imp.overwrite =>
                     /\ \A i \in 1..Len(imp.header.timeSignatures) :
                            timeSignatures'[i].ticks =
                                Rescaled(imp.header.timeSignatures[i].ticks, imp, PPQ)
                     /\ imp.ok =>
                            \A i \in 1..Len(imp.header.tempos) :
                                \E k \in 1..Len(tempos') :
                                    tempos'[k].ticks =
                                        Rescaled(imp.header.tempos[i].ticks, imp, PPQ)]_vars

\* The context of a song is in step with its plugin's pool: its counter is
\* not above the size of the pool.
InSync(ctx) ==
    ctx.attached => ctx.numTracksCreatedByPlugin <= Len(generatedTrackIdsInternal[ctx.plugin])

\* C21: with the same plugin instances attached to two songs, the counter of
\* each song's context never exceeds the size of the attached plugin's pool,
\* and a createTrack or cloneTrack under a plugin that declares createTrack
\* never throws ('Plugin generated track ids out of sync' is never raised).
C21_NeverOutOfSync ==
    /\ [](InSync(pluginContext) /\ InSync(otherSong.pluginContext))
    /\ [][(/\ lastTrackCall' # lastTrackCall
           /\ lastTrackCall'.op \in {"createTrack", "cloneTrack"}
           /\ Declares("createTrack"))
              => lastTrackCall'.ok]_vars
    /\ [][(/\ otherSong' # otherSong
           /\ otherSong'.lastCall.op \in {"createTrack", "cloneTrack"}
           /\ otherSong.pluginContext.attached
           /\ songAccess(otherSong.pluginContext.plugin).createTrack)
              => otherSong'.lastCall.ok]_vars

\* C21 witness: a plugin that created two tracks in the first song is
\* attached to the second song while still attached to the first, and has
\* created a track there with an id of its pool.
C21_Witness ==
    /\ pluginContext.attached /\ otherSong.pluginContext.attached
    /\ pluginContext.plugin = otherSong.pluginContext.plugin
    /\ pluginContext.numTracksCreatedByPlugin = 2
    /\ otherSong.pluginContext.numTracksCreatedByPlugin = 1
    /\ otherSong.lastCall.op = "createTrack" /\ otherSong.lastCall.ok
    /\ Len(generatedTrackIdsInternal[pluginContext.plugin]) = 2

\* C22: overwriteTempoChanges is all-or-nothing: whenever it throws, whatever
\* the reason, the tempo sequence is exactly what it was before the call.
C22_OverwriteAllOrNothing ==
    [][(last'.op = "overwriteTempoChanges" /\ ~last'.ok) => tempos' = tempos]_vars

\* The tick of the first event of tps after tick T; beyond every tick asked
\* about when there is none.
NextEventTick(tps, T) ==
    LET later == {tps[i].ticks : i \in {k \in 1..Len(tps) : tps[k].ticks > T}}
    IN  IF later = {} THEN MaxTick + 2
        ELSE CHOOSE m \in later : \A n \in later : m <= n

\* C23: after createTempoChange(T, bpm) returns, for every tick t above T up
\* to the tick of the next tempo event after T (every t above T when there
\* is none), tickToSeconds(t) = tickToSeconds(T) + (t - T) * 60 / (bpm *
\* resolution), also when T already held a tempo event.
C23_NewTempoGoverns ==
    [][(last'.op = "createTempoChange" /\ last'.ok) =>
          LET T == last'.ticks
              bpm == tempos'[last'.ret + 1].bpm
          IN  \A t \in QueryTicks :
                  (T < t /\ t <= NextEventTick(tempos', T)) =>
                      tickToSecondsImpl(t, tempos', PPQ) =
                          RAdd(tickToSecondsImpl(T, tempos', PPQ),
                               Num((t - T) * 60, bpm * PPQ))]_vars

\* The array without the element at index i (from 0).
Without(tps, i) == SubSeq(tps, 1, i) \o SubSeq(tps, i + 2, Len(tps))

\* What C24 says of a createTempoChange(T, bpm) that has just returned: for
\* every tick t <= T tickToSeconds(t) is what it was, every event that was
\* there with a tick <= T has the stored time it had, and the stored time of
\* the new event is tickToSeconds(T) as it was before the call.
NoTimingChangeUpTo(T) ==
    /\ \A t \in QueryTicks :
           t <= T => tickToSecondsImpl(t, tempos', PPQ) = tickToSecondsImpl(t, tempos, PPQ)
    /\ Len(tempos') = Len(tempos) + 1
    /\ \A i \in 1..Len(tempos) :
           tempos[i].ticks <= T => Without(tempos', last'.ret)[i] = tempos[i]
    /\ tempos'[last'.ret + 1].time = tickToSecondsImpl(T, tempos, PPQ)

\* C24 as stated: createTempoChange(T, bpm) changes no timing at or before T.
C24_NoTimingChangeBefore ==
    [][(last'.op = "createTempoChange" /\ last'.ok) => NoTimingChangeUpTo(last'.ticks)]_vars

\* C24 as amended: on a song whose resolution was set before its first tempo
\* event and has not been changed since, createTempoChange(T, bpm) changes no
\* timing at or before T.
C24_NoTimingChangeBeforeOnceFixed ==
    [][(last'.op = "createTempoChange" /\ last'.ok /\ ResolutionFixed)
          => NoTimingChangeUpTo(last'.ticks)]_vars

\* C24 witness: on such a song createTempoChange has put an event with a
\* tempo of its own after an event at a lower tick and before a later one.
C24_Witness ==
    /\ ResolutionFixed
    /\ last.op = "createTempoChange" /\ last.ok /\ last.ret = 1
    /\ Len(tempos) = 3
    /\ tempos[1].ticks < tempos[2].ticks /\ tempos[2].ticks <= tempos[3].ticks
    /\ tempos[1].bpm # tempos[2].bpm

\* C25: for every source note with a positive duration, whatever the source
\* resolution, importMIDI creates the destination note with an end tick
\* strictly greater than its start tick.
C25_NotesKeepPositiveLength ==
    [][Imported =>
          \A i \in 1..Len(lastImport'.created) :
              \A j \in 1..Len(lastImport'.tracks[i].notes) :
                  lastImport'.tracks[i].notes[j].durationTicks > 0 =>
                      lastImport'.created[i].notes[j].endTick
                          > lastImport'.created[i].notes[j].startTick]_vars
====
